---- MODULE Spec2Model ----
(***************************************************************************)
(* Semantic search subsystem of the AI use case navigator (src/search.py): *)
(* the embedding cache, the FAISS index file, the memoized index builder,  *)
(* the force rebuild command and semantic_search.                          *)
(*                                                                         *)
(* Spec     : one process, every call runs to completion (one action per   *)
(*            call), interleaved with dataset edits, file deletion or      *)
(*            corruption and process restarts.                             *)
(* SpecWrites : as SpecApp with a dataset and a model that are there, and  *)
(*            writes of the artifacts that can fail.                       *)
(* SpecApp  : one process on a dataset that does not change; each call     *)
(*            meets a dataset file that is there, missing or unreadable    *)
(*            and a model that loads or does not; the queries include the  *)
(*            composed text of a record.                                   *)
(* SpecConc : two processes on the same Data/ directory, each call a       *)
(*            sequence of steps, one per access to a persisted file.       *)
(***************************************************************************)
EXTENDS Integers, Sequences, FiniteSets, TLC

VARIABLES
    df,             \* the current dataset: sequence of records (rows 0..n-1)
    index_file,     \* content of FAISS_INDEX_PATH
    cache_file,     \* content of EMBEDDING_CACHE_PATH
    build_memo,     \* st.cache_data entries of build_faiss_index (this process)
    model_dim,      \* output dimension of the model get_model() returns
    last,           \* outcome of the most recent call (observation only)
    procs           \* SpecConc: the position and locals of each process

vars == <<df, index_file, cache_file, build_memo, model_dim, last, procs>>

----------------------------------------------------------------------------
(* Bounds of the model *)

MaxRecords == 2     \* longest dataset
MaxTopK == 3        \* largest top_k passed to semantic_search
MaxMemo == 1        \* memoized datasets per process before it is restarted

(* Program constants *)

FLT_MAX == 1000000  \* distance FAISS reports for a missing neighbour
                    \* (3.4028235e38 in the library; here any number above
                    \* every real distance of the model)

----------------------------------------------------------------------------
(* The record store: rows of the CSV as pandas reads them ("NaN" is a      *)
(* missing cell).                                                          *)

Titles == {"Forecasting", "Support"}
Companies == {"Acme"}
AiTypes == {"NaN"}
BusinessFunctions == {"Ops"}
Outcomes == {"demand", "triage"}

Rows == [use_case_name : Titles, company : Companies, ai_type : AiTypes,
         business_function : BusinessFunctions, outcome : Outcomes]

\* the rows the dataset file may hold: two that differ in the outcome only
\* and one with another title
Records == {r \in Rows : ~(r.use_case_name = "Support" /\ r.outcome = "demand")}

\* a query is a text, like a composed text a sequence of parts
Queries == {<<"demand">>}
Dims == {1, 2}

\* pd.isna(x)
isna(x) == x = "NaN"

\* Series == Series, elementwise: NaN never equals anything, itself included
SeriesEq(a, b) == ~isna(a) /\ ~isna(b) /\ a = b


----------------------------------------------------------------------------
(* The embedder: SentenceTransformer(MODEL_NAME).encode.  A text is the    *)
(* sequence of its parts; the vector is a fixed function of the text and   *)
(* of the model's output dimension.                                        *)

Code(tok) ==
    CASE tok = "" -> 0
      [] tok = "Forecasting" -> 1
      [] tok = "Support" -> 2
      [] tok = "Acme" -> 3
      [] tok = "Ops" -> 4
      [] tok = "used" -> 5
      [] tok = "for" -> 6
      [] tok = "demand" -> 10
      [] tok = "triage" -> 20
      [] OTHER -> 7

RECURSIVE Coord(_, _, _)
Coord(text, i, j) ==
    IF j > Len(text) THEN 0
    ELSE Code(text[j]) * (IF (i + j) % 2 = 0 THEN 2 ELSE 1) + Coord(text, i, j + 1)

\* model.encode([text])[0] for a model of output dimension d
encode(text, d) == [i \in 1..d |-> Coord(text, i, 1)]

\* embed_texts(texts): one vector per text, same order.  The st.cache_data
\* entry of embed_texts is keyed on texts and the model is fixed for the
\* life of the process, so a memoized answer equals a computed one.
embed_texts(texts, d) == [j \in 1..Len(texts) |-> encode(texts[j], d)]

\* row[c] if not pd.isna(row[c]) else ""
Field(row, c) == IF isna(row[c]) THEN "" ELSE row[c]

\* f"{title}. {company} used {ai_type} for {business_function}. {outcome}"
ComposeText(row) ==
    << Field(row, "use_case_name"), Field(row, "company"), "used",
       Field(row, "ai_type"), "for", Field(row, "business_function"),
       Field(row, "outcome") >>

----------------------------------------------------------------------------
(* Persisted artifacts.  A file is absent, unreadable (pickle.load         *)
(* raises), of another schema (a key or column is missing), or ok.         *)

Absent == [kind |-> "absent"]
Unreadable == [kind |-> "unreadable"]
BadSchema == [kind |-> "badschema"]

\* os.path.exists(path)
exists(file) == file.kind # "absent"

\* pickle.dump(cache_df, f): the dataset copy with its embedding column
CacheOf(data, embeddings) ==
    [kind |-> "ok", df |-> data, embedding |-> embeddings]

\* pickle.dump({'index': index, 'ids': ids}, f)
IndexFileOf(index, ids) == [kind |-> "ok", index |-> index, ids |-> ids]

\* len(cache_data) == len(df) and all(cache_data['use_case_name'] == df['use_case_name'])
CacheMatches(cache, data) ==
    /\ Len(cache.df) = Len(data)
    /\ \A i \in 1..Len(data) :
          SeriesEq(cache.df[i].use_case_name, data[i].use_case_name)

\* lines 49-64: the embeddings of the composed texts of the dataset
FreshEmbeddings(data, d) ==
    embed_texts([i \in 1..Len(data) |-> ComposeText(data[i])], d)

\* generate_embeddings(df): the embeddings returned and the cache file left
\* behind.  reused: the cached vectors were returned.
generate_embeddings(cache, data, d) ==
    IF cache.kind = "ok" /\ CacheMatches(cache, data)
    THEN [embeddings |-> cache.embedding, cache |-> cache, reused |-> TRUE]
    ELSE [embeddings |-> FreshEmbeddings(data, d),
          cache |-> CacheOf(data, FreshEmbeddings(data, d)),
          reused |-> FALSE]

----------------------------------------------------------------------------
(* The vector index: faiss.IndexFlatL2.  d is fixed at construction, xb    *)
(* holds the added vectors, slot i (0-based) is xb[i + 1].                 *)

\* faiss.IndexFlatL2(dimension); index.add(embeddings_np)
IndexFlatL2(dimension, embeddings) == [d |-> dimension, xb |-> embeddings]

ntotal(index) == Len(index.xb)

RECURSIVE SqDist(_, _, _)
SqDist(x, y, i) ==
    IF i > Len(x) THEN 0
    ELSE (x[i] - y[i]) * (x[i] - y[i]) + SqDist(x, y, i + 1)

\* squared Euclidean distance of the query to slot s
SlotDist(index, x, s) == SqDist(x, index.xb[s + 1], 1)

\* the nearest slot among cand: smallest distance, then smallest slot
Nearest(index, x, cand) ==
    CHOOSE s \in cand : \A t \in cand :
        \/ SlotDist(index, x, s) < SlotDist(index, x, t)
        \/ SlotDist(index, x, s) = SlotDist(index, x, t) /\ s <= t

RECURSIVE Ranked(_, _, _)
Ranked(index, x, cand) ==
    IF cand = {} THEN << >>
    ELSE LET s == Nearest(index, x, cand)
         IN  <<s>> \o Ranked(index, x, cand \ {s})

\* labels and distances for the ranking order, the positions past ntotal
\* filled with label -1 and distance FLT_MAX
Padded(index, x, k, order) ==
    [err |-> "none",
     indices |-> [j \in 1..k |-> IF j <= Len(order) THEN order[j] ELSE -1],
     distances |-> [j \in 1..k |->
                      IF j <= Len(order) THEN SlotDist(index, x, order[j])
                      ELSE FLT_MAX]]

\* index.search that reads index.d coordinates of whatever query it gets
IndexSearchTruncating(index, x, k) ==
    Padded(index, [i \in 1..index.d |-> IF i <= Len(x) THEN x[i] ELSE 0], k,
           Ranked(index, [i \in 1..index.d |-> IF i <= Len(x) THEN x[i] ELSE 0],
                  0..(ntotal(index) - 1)))

\* index.search(x, k): a query of another dimension is refused; else the
\* k nearest slots, nearest first
IndexSearch(index, x, k) ==
    IF Len(x) # index.d
    THEN [err |-> "AssertionError", indices |-> << >>, distances |-> << >>]
    ELSE Padded(index, x, k, Ranked(index, x, 0..(ntotal(index) - 1)))

----------------------------------------------------------------------------
(* build_faiss_index                                                       *)

\* list(range(len(df)))
\* the mapping numbered from one
RangeIdsOneBased(data) == [i \in 1..Len(data) |-> i]

\* list(range(len(df))), line 111
RangeIds(data) == [i \in 1..Len(data) |-> i - 1]

\* lines 99-120: the index over the embeddings g of generate_embeddings,
\* saved to the index file
IndexFrom(ifile, data, g) ==
    IF Len(g.embeddings) = 0
    THEN \* embeddings_np.shape[1] on an array of shape (0,)
         [err |-> "IndexError", index |-> IndexFlatL2(0, << >>),
          ids |-> << >>, index_file |-> ifile, cache_file |-> g.cache,
          built |-> FALSE, generated |-> TRUE, reused |-> g.reused]
    ELSE [err |-> "none",
          index |-> IndexFlatL2(Len(g.embeddings[1]), g.embeddings),
          ids |-> RangeIds(data),
          index_file |-> IndexFileOf(IndexFlatL2(Len(g.embeddings[1]),
                                                 g.embeddings),
                                     RangeIds(data)),
          cache_file |-> g.cache,
          built |-> TRUE, generated |-> TRUE, reused |-> g.reused]

\* a body that regenerates whatever the index file holds
BuildBodyEager(ifile, cfile, data, d) ==
    IndexFrom(ifile, data, generate_embeddings(cfile, data, d))

\* The body of build_faiss_index(df), lines 83-120.  err is "none" or the
\* exception that leaves the function; generated: generate_embeddings was
\* called; reused: it returned the cached vectors; built: the index was
\* constructed from embeddings (line 107).
BuildBody(ifile, cfile, data, d) ==
    IF ifile.kind = "ok" /\ Len(ifile.ids) = Len(data)
    THEN [err |-> "none", index |-> ifile.index, ids |-> ifile.ids,
          index_file |-> ifile, cache_file |-> cfile,
          built |-> FALSE, generated |-> FALSE, reused |-> FALSE]
    ELSE IndexFrom(ifile, data, generate_embeddings(cfile, data, d))

\* @st.cache_data: the entry stored for this argument value, if any
MemoHit(memo, data) == \E e \in memo : e.key = data
MemoGet(memo, data) == CHOOSE e \in memo : e.key = data

\* a memoized answer: the body does not run, no file is touched
Memoized(e, memo, ifile, cfile) ==
    [err |-> "none", index |-> e.index, ids |-> e.ids,
     index_file |-> ifile, cache_file |-> cfile,
     built |-> FALSE, generated |-> FALSE, reused |-> FALSE,
     ran |-> FALSE, memo |-> memo]

\* the answer b of the body, stored unless it is an exception
Stored(memo, data, b) ==
    b @@ [ran |-> TRUE,
          memo |-> IF b.err = "none"
                   THEN memo \cup {[key |-> data, index |-> b.index,
                                    ids |-> b.ids]}
                   ELSE memo]

\* build_faiss_index(df) without the decorator: the body runs every time
build_faiss_index_unmemoized(memo, ifile, cfile, data, d) ==
    Stored(memo, data, BuildBody(ifile, cfile, data, d))

\* build_faiss_index(df) as callers see it: the memoized function.  ran:
\* the body was executed.
build_faiss_index(memo, ifile, cfile, data, d) ==
    IF MemoHit(memo, data)
    THEN Memoized(MemoGet(memo, data), memo, ifile, cfile)
    ELSE Stored(memo, data, BuildBody(ifile, cfile, data, d))

----------------------------------------------------------------------------
(* semantic_search and rebuild_faiss_index                                 *)

\* seq[i] of a Python list: a negative i counts from the end
PyInRange(seq, i) == -Len(seq) <= i /\ i < Len(seq)
PyItem(seq, i) == IF i >= 0 THEN seq[i + 1] ELSE seq[Len(seq) + i + 1]

\* the distance of the first position taken for the largest
MaxOfFirst(seq) == seq[1]

\* np.max(distances)
MaxOf(seq) == CHOOSE m \in {seq[j] : j \in DOMAIN seq} :
                  \A j \in DOMAIN seq : seq[j] <= m

\* distances[0] / max_distance taken for the score
ScoresUnflipped(distances, max_distance) ==
    [j \in DOMAIN distances |->
        IF max_distance > 0
        THEN [num |-> distances[j], den |-> max_distance]
        ELSE [num |-> 1, den |-> 1]]

\* 1 - (distances[0] / max_distance), or np.ones: a fraction num/den
Scores(distances, max_distance) ==
    [j \in DOMAIN distances |->
        IF max_distance > 0
        THEN [num |-> max_distance - distances[j], den |-> max_distance]
        ELSE [num |-> 1, den |-> 1]]

Similarity(distances) == Scores(distances, MaxOf(distances))

NoRows == [rows |-> << >>, distances |-> << >>, similarity |-> << >>]

\* df.iloc[df_indices] with the similarity column, lines 188-197
Hydrate(df_indices, distances, data) ==
    IF \E j \in DOMAIN df_indices : ~(df_indices[j] \in 0..(Len(data) - 1))
    THEN [err |-> "IndexError"] @@ NoRows
    ELSE [err |-> "none", rows |-> df_indices, distances |-> distances,
          similarity |-> Similarity(distances)]

\* [ids[i] for i in indices[0]], line 185, and what follows
MapRows(found, ids, data) ==
    IF found.err # "none"
    THEN [err |-> found.err] @@ NoRows
    ELSE IF \E j \in DOMAIN found.indices : ~PyInRange(ids, found.indices[j])
    THEN [err |-> "IndexError"] @@ NoRows
    ELSE Hydrate([j \in DOMAIN found.indices |-> PyItem(ids, found.indices[j])],
                 found.distances, data)

\* lines 179-197: search the index, map labels to rows, score
SearchRows(index, ids, data, x, top_k) ==
    MapRows(IndexSearch(index, x, top_k), ids, data)

\* lines 179-197 after the builds b1 (line 159) and b2 (line 175, or b1
\* again when the branch of line 167 was not taken)
Answer(b1, b2, mismatch, data, x, top_k) ==
    (IF b2.err # "none"
     THEN [err |-> b2.err] @@ NoRows
     ELSE SearchRows(b2.index, b2.ids, data, x, top_k))
    @@ [index |-> b2.index, mismatch |-> mismatch,
        calls |-> IF mismatch THEN 2 ELSE 1,
        rebuilt |-> mismatch /\ b2.built,
        builds |-> (IF b1.built THEN 1 ELSE 0)
                   + (IF mismatch /\ b2.built THEN 1 ELSE 0),
        index_file |-> b2.index_file, cache_file |-> b2.cache_file,
        memo |-> b2.memo,
        ran |-> b1.ran, generated |-> b1.generated, reused |-> b1.reused]

\* the branch of line 167 taken whatever the dimensions are
RecoverAlways(b1, data, d, x, top_k) ==
    IF b1.err # "none"
    THEN [err |-> b1.err, index |-> b1.index, mismatch |-> FALSE,
          calls |-> 1, rebuilt |-> FALSE, builds |-> 0, index_file |-> b1.index_file,
          cache_file |-> b1.cache_file, memo |-> b1.memo,
          ran |-> b1.ran, generated |-> b1.generated, reused |-> b1.reused]
         @@ NoRows
    ELSE Answer(b1, build_faiss_index(b1.memo, Absent, Absent, data, d),
                Len(x) # b1.index.d, data, x, top_k)

\* lines 161-177 after the build b1 of line 159: on a dimension mismatch
\* both files are removed and build_faiss_index is called again
Recover(b1, data, d, x, top_k) ==
    IF b1.err # "none"
    THEN [err |-> b1.err, index |-> b1.index, mismatch |-> FALSE,
          calls |-> 1, rebuilt |-> FALSE, builds |-> 0, index_file |-> b1.index_file,
          cache_file |-> b1.cache_file, memo |-> b1.memo,
          ran |-> b1.ran, generated |-> b1.generated, reused |-> b1.reused]
         @@ NoRows
    ELSE IF Len(x) # b1.index.d
    THEN Answer(b1, build_faiss_index(b1.memo, Absent, Absent, data, d),
                TRUE, data, x, top_k)
    ELSE Answer(b1, b1, FALSE, data, x, top_k)

\* semantic_search(query, df, top_k), lines 154-197.  mismatch: the branch
\* of line 167 was taken; calls: calls of build_faiss_index; rebuilt: the
\* call of line 175 constructed an index; builds: index constructions
\* during the call; ran, generated, reused: what the call of line 159 did.
semantic_search(memo, ifile, cfile, data, d, query, top_k) ==
    Recover(build_faiss_index(memo, ifile, cfile, data, d), data, d,
            encode(query, d), top_k)

\* rebuild_faiss_index(csv_path), lines 122-152; data is what read_csv
\* returns for the dataset file
rebuild_faiss_index(memo, ifile, cfile, data, d) ==
    build_faiss_index(memo, Absent, Absent, data, d)

----------------------------------------------------------------------------
(* The state machine                                                       *)

\* what a call reports; pre_index and pre_cache: the kinds of the two
\* files when the call began
Report(op, r, query, top_k) ==
    [op |-> op, err |-> r.err, query |-> query, top_k |-> top_k,
     index |-> r.index, mismatch |-> r.mismatch, calls |-> r.calls,
     rebuilt |-> r.rebuilt, builds |-> r.builds,
     ran |-> r.ran, generated |-> r.generated, reused |-> r.reused,
     pre_index |-> index_file.kind, pre_cache |-> cache_file.kind,
     rows |-> r.rows, distances |-> r.distances,
     similarity |-> r.similarity]

Idle ==
    [op |-> "none", err |-> "none", query |-> << >>, top_k |-> 0,
     index |-> IndexFlatL2(0, << >>), mismatch |-> FALSE, calls |-> 0,
     rebuilt |-> FALSE, builds |-> 0,
     ran |-> FALSE, generated |-> FALSE, reused |-> FALSE,
     pre_index |-> "absent", pre_cache |-> "absent"] @@ NoRows

Procs == {1, 2}

\* a process between calls; w: how its open-for-write file stands; op: the
\* call it is serving; saw: what the call met under a path while another
\* process was replacing the artifacts
IdleProc ==
    [pc |-> "idle", ret |-> "idle", memo |-> {}, emb |-> << >>,
     index |-> IndexFlatL2(0, << >>), ids |-> << >>, w |-> "clean",
     err |-> "none", op |-> "none", saw |-> "none"]

RECURSIVE SeqsUpTo(_, _)
SeqsUpTo(S, n) ==
    IF n = 0 THEN {<< >>}
    ELSE LET shorter == SeqsUpTo(S, n - 1)
         IN  shorter \cup {Append(q, x) : q \in shorter, x \in S}

Init ==
    /\ df \in SeqsUpTo(Records, MaxRecords)
    /\ index_file = Absent
    /\ cache_file = Absent
    /\ build_memo = {}
    /\ model_dim \in Dims
    /\ last = Idle
    /\ procs = [p \in Procs |-> IdleProc]

\* the call returns (or raises): its files, its memo and its report
Finish(op, r, query, top_k) ==
    /\ index_file' = r.index_file
    /\ cache_file' = r.cache_file
    /\ build_memo' = r.memo
    /\ last' = Report(op, r, query, top_k)

RebuildReport(b) ==
    b @@ [mismatch |-> FALSE, calls |-> 1, rebuilt |-> FALSE,
          builds |-> IF b.built THEN 1 ELSE 0] @@ NoRows

\* a call may add an entry to the memo of build_faiss_index
MemoRoom == MemoHit(build_memo, df) \/ Cardinality(build_memo) < MaxMemo

\* semantic_search(query, df, top_k) runs to completion
Search(query, top_k) ==
    /\ MemoRoom
    /\ Finish("search",
              semantic_search(build_memo, index_file, cache_file, df,
                              model_dim, query, top_k),
              query, top_k)
    /\ UNCHANGED <<df, model_dim, procs>>

\* rebuild_faiss_index() runs to completion on the dataset file (the
\* command line of lines 200-209 is Restart, then this)
ForceRebuild ==
    /\ MemoRoom
    /\ Finish("rebuild",
              RebuildReport(rebuild_faiss_index(build_memo, index_file,
                                                cache_file, df, model_dim)),
              << >>, 0)
    /\ UNCHANGED <<df, model_dim, procs>>

\* the dataset file gains a row
AppendRecord(r) ==
    /\ Len(df) < MaxRecords
    /\ df' = Append(df, r)
    /\ last' = Idle
    /\ UNCHANGED <<index_file, cache_file, build_memo, model_dim, procs>>

\* the dataset file loses row i
RemoveRecord(i) ==
    /\ i \in 1..Len(df)
    /\ df' = [j \in 1..(Len(df) - 1) |-> IF j < i THEN df[j] ELSE df[j + 1]]
    /\ last' = Idle
    /\ UNCHANGED <<index_file, cache_file, build_memo, model_dim, procs>>

\* one cell of row i changes
EditRecord(i, r) ==
    /\ i \in 1..Len(df)
    /\ \E c \in DOMAIN r : /\ r[c] # df[i][c]
                           /\ \A c2 \in DOMAIN r \ {c} : r[c2] = df[i][c2]
    /\ df' = [df EXCEPT ![i] = r]
    /\ last' = Idle
    /\ UNCHANGED <<index_file, cache_file, build_memo, model_dim, procs>>

DeleteIndexFile ==
    /\ exists(index_file)
    /\ index_file' = Absent
    /\ last' = Idle
    /\ UNCHANGED <<df, cache_file, build_memo, model_dim, procs>>

DeleteCacheFile ==
    /\ exists(cache_file)
    /\ cache_file' = Absent
    /\ last' = Idle
    /\ UNCHANGED <<df, index_file, build_memo, model_dim, procs>>

\* the index file is damaged on storage
CorruptIndexFile(damaged) ==
    /\ index_file.kind = "ok"
    /\ index_file' = damaged
    /\ last' = Idle
    /\ UNCHANGED <<df, cache_file, build_memo, model_dim, procs>>

CorruptCacheFile(damaged) ==
    /\ cache_file.kind = "ok"
    /\ cache_file' = damaged
    /\ last' = Idle
    /\ UNCHANGED <<df, index_file, build_memo, model_dim, procs>>

\* the process ends and a new one starts, with a model of dimension d:
\* every st.cache_data / st.cache_resource entry is gone
Restart(d) ==
    /\ build_memo' = {}
    /\ model_dim' = d
    /\ last' = Idle
    /\ UNCHANGED <<df, index_file, cache_file, procs>>

Next ==
    \/ \E query \in Queries, top_k \in 1..MaxTopK : Search(query, top_k)
    \/ ForceRebuild
    \/ \E r \in Records : AppendRecord(r)
    \/ \E i \in 1..MaxRecords : RemoveRecord(i)
    \/ \E i \in 1..MaxRecords, r \in Records : EditRecord(i, r)
    \/ DeleteIndexFile
    \/ DeleteCacheFile
    \/ \E damaged \in {Unreadable, BadSchema} : CorruptIndexFile(damaged)
    \/ \E damaged \in {Unreadable, BadSchema} : CorruptCacheFile(damaged)
    \/ \E d \in Dims : Restart(d)

Spec == Init /\ [][Next]_vars

----------------------------------------------------------------------------
(* Calls that meet a configuration error.  The dataset reaches the calls   *)
(* through data_utils.load_data (search) or pd.read_csv (force rebuild);   *)
(* model_dim = NoModel stands for a process in which get_model() raises.   *)

NoModel == 0

DatasetFiles == {"ok", "missing", "unreadable"}

\* data_utils.load_data(file_path): the frame its callers get.  A missing
\* file (line 101) and a file that cannot be read (line 214) give
\* st.error and an empty frame.
load_data(status, data) == IF status = "ok" THEN data ELSE << >>

\* pd.read_csv(csv_path), line 143
read_csv(status, data) ==
    CASE status = "ok" -> [err |-> "none", df |-> data]
      [] status = "missing" -> [err |-> "FileNotFoundError", df |-> << >>]
      [] OTHER -> [err |-> "ParserError", df |-> << >>]

\* a call before any build
NoBuild ==
    [index |-> IndexFlatL2(0, << >>), ran |-> FALSE, generated |-> FALSE,
     reused |-> FALSE]

\* the call ends in the exception err, the files and the memo as given;
\* b: the build it made
Raised(err, b, ifile, cfile, memo) ==
    [err |-> err, index |-> b.index, mismatch |-> FALSE, calls |-> 1,
     rebuilt |-> FALSE, builds |-> 0, index_file |-> ifile,
     cache_file |-> cfile, memo |-> memo, ran |-> b.ran,
     generated |-> b.generated, reused |-> b.reused] @@ NoRows

\* semantic_search in a process whose get_model() raises; b is the build
\* of line 159 as it would run.  The model is first needed at line 64
\* (embed_texts, before the cache is written) when embeddings are
\* generated, else at line 162.
LostAt(b, memo, ifile, cfile) ==
    IF b.generated /\ ~b.reused
    THEN Raised("OSError", NoBuild @@ [ran |-> TRUE, generated |-> TRUE],
                ifile, cfile, memo)
    ELSE IF b.err # "none"
    THEN Raised(b.err, b, b.index_file, b.cache_file, b.memo)
    ELSE Raised("OSError", b, b.index_file, b.cache_file, b.memo)

\* rebuild_faiss_index in a process whose get_model() raises; b is the
\* build of line 147 as it would run
RebuildLostAt(b, memo) ==
    IF b.generated /\ ~b.reused
    THEN Raised("OSError", NoBuild @@ [ran |-> TRUE, generated |-> TRUE],
                Absent, Absent, memo)
    ELSE RebuildReport(b)

\* the call returns (or raises); status: the dataset file it met
Conclude(op, r, query, top_k, status) ==
    /\ index_file' = r.index_file
    /\ cache_file' = r.cache_file
    /\ build_memo' = r.memo
    /\ last' = Report(op, r, query, top_k)
                   @@ [dataset |-> status, writes |-> <<"ok", "ok">>]

\* how the 'with open(path, 'wb') as f: pickle.dump(obj, f)' of lines
\* 71-72 and 115-116 can end: done, open raises, or pickle.dump raises
\* after open has truncated the file
WriteOutcomes == {"ok", "open_fails", "dump_fails"}

\* what the write leaves under the path whose content was file
WriteTo(file, content, outcome) ==
    CASE outcome = "ok" -> content
      [] outcome = "open_fails" -> file
      [] OTHER -> Unreadable

\* the build b (as it runs when its writes succeed) with the cache write
\* ending as w[1] and the index write as w[2]: the exception is caught
\* (lines 73-74, 117-118), so only the file left behind differs
WithWrites(b, ifile, cfile, w) ==
    [b EXCEPT
        !.cache_file = IF b.generated /\ ~b.reused
                       THEN WriteTo(cfile, b.cache_file, w[1])
                       ELSE b.cache_file,
        !.index_file = IF b.built
                       THEN WriteTo(ifile, b.index_file, w[2])
                       ELSE b.index_file]

\* the call returns (or raises) after writes that ended as w
ConcludeWrites(r, query, top_k, w) ==
    /\ index_file' = r.index_file
    /\ cache_file' = r.cache_file
    /\ build_memo' = r.memo
    /\ last' = [writes |-> w, dataset |-> "ok"]
                   @@ Report("search", r, query, top_k)

\* semantic_search on the loaded dataset with writes that end as w
ServeFailing(w, query, top_k) ==
    /\ model_dim # NoModel
    /\ ConcludeWrites(
          Recover(WithWrites(build_faiss_index(build_memo, index_file,
                                               cache_file, df, model_dim),
                             index_file, cache_file, w),
                  df, model_dim, encode(query, model_dim), top_k),
          query, top_k, w)
    /\ UNCHANGED <<df, model_dim, procs>>

\* the dataset is loaded with load_data and searched
Serve(status, query, top_k) ==
    /\ Conclude("search",
                IF model_dim = NoModel
                THEN LostAt(build_faiss_index(build_memo, index_file,
                                              cache_file,
                                              load_data(status, df),
                                              model_dim),
                            build_memo, index_file, cache_file)
                ELSE semantic_search(build_memo, index_file, cache_file,
                                     load_data(status, df), model_dim,
                                     query, top_k),
                query, top_k, status)
    /\ UNCHANGED <<df, model_dim, procs>>

\* a rebuild that reads the dataset file before it removes anything: a
\* failed read leaves both files as they were
rebuild_reading_first(memo, ifile, cfile, csv, d) ==
    IF csv.err # "none"
    THEN Raised(csv.err, NoBuild, ifile, cfile, memo)
    ELSE IF d = NoModel
    THEN RebuildLostAt(rebuild_faiss_index(memo, ifile, cfile, csv.df, d),
                       memo)
    ELSE RebuildReport(rebuild_faiss_index(memo, ifile, cfile, csv.df, d))

\* rebuild_faiss_index(csv_path), lines 129-152, csv being what
\* pd.read_csv does on the dataset file: both files are removed (lines
\* 130-136), then the file is read (line 143), then the index is built
rebuild_from_csv(memo, ifile, cfile, csv, d) ==
    IF csv.err # "none"
    THEN Raised(csv.err, NoBuild, Absent, Absent, memo)
    ELSE IF d = NoModel
    THEN RebuildLostAt(rebuild_faiss_index(memo, ifile, cfile, csv.df, d),
                       memo)
    ELSE RebuildReport(rebuild_faiss_index(memo, ifile, cfile, csv.df, d))

\* rebuild_faiss_index() on a dataset file that is there, missing or
\* unreadable
Rebuild(status) ==
    /\ Conclude("rebuild",
                rebuild_from_csv(build_memo, index_file, cache_file,
                                 read_csv(status, df), model_dim),
                << >>, 0, status)
    /\ UNCHANGED <<df, model_dim, procs>>

\* the process ends and a new one starts with the same model
Reload ==
    /\ build_memo # {}
    /\ build_memo' = {}
    /\ UNCHANGED <<df, index_file, cache_file, model_dim, last, procs>>

\* the process ends and a new one starts whose model is another one, or
\* does not load
SwapModel(d) ==
    /\ d # model_dim
    /\ build_memo' = {}
    /\ model_dim' = d
    /\ last' = Idle
    /\ UNCHANGED <<df, index_file, cache_file, procs>>

\* the queries of SpecApp: a phrase, and the composed text of a record
FullQueries ==
    Queries \cup {ComposeText(r) : r \in {x \in Records : x.outcome = "demand"}}

InitApp ==
    /\ df \in SeqsUpTo(Records, MaxRecords)
    /\ index_file = Absent
    /\ cache_file = Absent
    /\ build_memo = {}
    /\ model_dim \in Dims
    /\ last = Idle
    /\ procs = [p \in Procs |-> IdleProc]

NextApp ==
    \/ \E status \in DatasetFiles, query \in FullQueries, top_k \in 1..MaxTopK :
          Serve(status, query, top_k)
    \/ \E status \in DatasetFiles : Rebuild(status)
    \/ Reload
    \/ \E d \in Dims \cup {NoModel} : SwapModel(d)

SpecApp == InitApp /\ [][NextApp]_vars

\* SpecWrites: the searches of one process after another on a dataset
\* that does not change, each write of an artifact ending in any of the
\* three ways
NextWrites ==
    \/ \E w \in WriteOutcomes \X WriteOutcomes, query \in Queries,
          top_k \in 1..MaxTopK :
          ServeFailing(w, query, top_k)
    \/ Reload
    \/ \E d \in Dims : SwapModel(d)

SpecWrites == InitApp /\ [][NextWrites]_vars

----------------------------------------------------------------------------
(* Two processes, step by step.  A position is named after the source      *)
(* line about to run: s = semantic_search, r = rebuild_faiss_index,        *)
(* b = build_faiss_index, g = generate_embeddings.  The code takes no lock *)
(* and each process has its own st.cache_data entries.  A file opened      *)
(* with 'wb' is truncated at once and complete when the dump returns.      *)

\* a file open for writing: it exists and cannot be loaded
Partial == [kind |-> "partial"]

rest == <<df, build_memo, model_dim, last>>

\* the file a position is about to test, remove or write
IsIndexPc(pc) == pc \in {"b84", "b86", "b115", "b116", "s170", "s171", "r130", "r132"}
FileAt(pc) == IF IsIndexPc(pc) THEN index_file ELSE cache_file

\* process p moves to the record rec; nothing else changes
Move(p, rec) ==
    /\ procs' = [procs EXCEPT ![p] = rec]
    /\ UNCHANGED <<index_file, cache_file>>
    /\ UNCHANGED rest

\* process p puts content in place of the file its position names and
\* moves to rec; every process that has this file open for writing at
\* position wpc is marked with mark
Put(p, rec, content, wpc, mark) ==
    /\ procs' = [q \in Procs |->
                    IF q = p THEN rec
                    ELSE IF procs[q].pc = wpc
                    THEN [procs[q] EXCEPT !.w = mark]
                    ELSE procs[q]]
    /\ IF IsIndexPc(procs[p].pc)
       THEN index_file' = content /\ UNCHANGED cache_file
       ELSE cache_file' = content /\ UNCHANGED index_file
    /\ UNCHANGED rest

\* the position that holds the file of pc open for writing
WriterPc(pc) == IF IsIndexPc(pc) THEN "b116" ELSE "g72"

StartSearch(p) ==
    /\ procs[p].pc = "idle"
    /\ Move(p, [procs[p] EXCEPT !.pc = "s159", !.err = "none",
                                !.op = "search", !.saw = "none"])

StartRebuild(p) ==
    /\ procs[p].pc = "idle"
    /\ Move(p, [procs[p] EXCEPT !.pc = "r130", !.err = "none",
                                !.op = "rebuild", !.saw = "none"])

\* where build_faiss_index returns to
RetOf(pc) == CASE pc = "s159" -> "s163"
               [] pc = "s175" -> "s182"
               [] pc = "r147" -> "r149"

\* lines 159, 175, 147: the memoized call
CallBuild(p) ==
    /\ procs[p].pc \in {"s159", "s175", "r147"}
    /\ IF MemoHit(procs[p].memo, df)
       THEN Move(p, [procs[p] EXCEPT
                        !.pc = RetOf(procs[p].pc),
                        !.index = MemoGet(procs[p].memo, df).index,
                        !.ids = MemoGet(procs[p].memo, df).ids])
       ELSE Move(p, [procs[p] EXCEPT !.pc = "b84",
                                     !.ret = RetOf(procs[p].pc)])

\* after a test of os.path.exists: the position when the file is there,
\* and when it is not
IfExists(pc) == CASE pc = "b84" -> "b86" [] pc = "g37" -> "g39"
                  [] pc = "s170" -> "s171" [] pc = "s172" -> "s173"
                  [] pc = "r130" -> "r132" [] pc = "r134" -> "r136"
IfAbsent(pc) == CASE pc = "b84" -> "g37" [] pc = "g37" -> "g50"
                  [] pc = "s170" -> "s172" [] pc = "s172" -> "s175"
                  [] pc = "r130" -> "r134" [] pc = "r134" -> "r143"

\* process q is between the first os.remove and the last dump of a
\* replacement of the artifacts: a force rebuild, or the recovery of lines
\* 169-175
Replacing(q) ==
    \/ procs[q].op = "rebuild" /\ procs[q].pc \notin {"idle", "done", "failed"}
    \/ procs[q].pc \in {"s170", "s171", "s172", "s173", "s175"}
    \/ procs[q].ret = "s182" /\ procs[q].pc \notin {"idle", "done", "failed", "s182"}

\* the path after os.remove by process q
Removed(q) == [kind |-> "absent", by |-> q]

\* the file is in the middle of a replacement by process q: removed and
\* not yet written again, or open for writing
Torn(file, q) ==
    /\ Replacing(q)
    /\ \/ file.kind = "partial"
       \/ file.kind = "absent" /\ "by" \in DOMAIN file /\ file.by = q

\* what the call of p is seen to have met once it finds file under the
\* path of its position
Met(p, file) ==
    IF /\ procs[p].op = "search"
       /\ procs[p].pc \in {"b84", "b86", "g37", "g39"}
       /\ \E q \in Procs \ {p} : Torn(file, q)
    THEN file.kind
    ELSE procs[p].saw

\* lines 84, 37, 170, 172, 130, 134: os.path.exists(path)
TestExists(p) ==
    /\ procs[p].pc \in {"b84", "g37", "s170", "s172", "r130", "r134"}
    /\ Move(p, [procs[p] EXCEPT
                   !.pc = IF exists(FileAt(procs[p].pc))
                          THEN IfExists(procs[p].pc)
                          ELSE IfAbsent(procs[p].pc),
                   !.saw = IF exists(FileAt(procs[p].pc))
                           THEN @ ELSE Met(p, FileAt(procs[p].pc))])

AfterRemove(pc) == CASE pc = "s171" -> "s172" [] pc = "s173" -> "s175"
                     [] pc = "r132" -> "r134" [] pc = "r136" -> "r143"

\* lines 171, 173, 132, 136: os.remove(path).  The name is gone for a
\* process that is writing the file; a missing file raises.
Remove(p) ==
    /\ procs[p].pc \in {"s171", "s173", "r132", "r136"}
    /\ IF exists(FileAt(procs[p].pc))
       THEN Put(p, [procs[p] EXCEPT !.pc = AfterRemove(procs[p].pc)],
                Removed(p), WriterPc(procs[p].pc), "unlinked")
       ELSE Move(p, [procs[p] EXCEPT !.pc = "failed",
                                     !.err = "FileNotFoundError"])

\* the entry st.cache_data stores when the body returns
Remember(rec) ==
    [rec EXCEPT !.memo = @ \cup {[key |-> df, index |-> rec.index,
                                  ids |-> rec.ids]}]

\* lines 85-94: load the index file; any exception falls through
LoadIndex(p) ==
    /\ procs[p].pc = "b86"
    /\ IF index_file.kind = "ok" /\ Len(index_file.ids) = Len(df)
       THEN Move(p, Remember([procs[p] EXCEPT !.pc = procs[p].ret,
                                              !.index = index_file.index,
                                              !.ids = index_file.ids]))
       ELSE Move(p, [procs[p] EXCEPT !.pc = "g37",
                                     !.saw = Met(p, index_file)])

\* lines 38-47: load the cache file; any exception falls through
LoadCache(p) ==
    /\ procs[p].pc = "g39"
    /\ IF cache_file.kind = "ok" /\ CacheMatches(cache_file, df)
       THEN Move(p, [procs[p] EXCEPT !.pc = "b99",
                                     !.emb = cache_file.embedding])
       ELSE Move(p, [procs[p] EXCEPT !.pc = "g50",
                                     !.saw = Met(p, cache_file)])

\* lines 49-68
Embed(p) ==
    /\ procs[p].pc = "g50"
    /\ Move(p, [procs[p] EXCEPT !.pc = "g71",
                                !.emb = FreshEmbeddings(df, model_dim)])

\* lines 71 and 115: open(path, 'wb')
OpenWrite(p) ==
    /\ procs[p].pc \in {"g71", "b115"}
    /\ LET wpc == WriterPc(procs[p].pc)
           shared == \E q \in Procs \ {p} : procs[q].pc = wpc
       IN  Put(p, [procs[p] EXCEPT
                      !.pc = wpc,
                      !.w = IF shared THEN "overlapped" ELSE "clean"],
               Partial, wpc, "overlapped")

\* what a finished dump leaves under the path: nothing new when the name
\* was removed meanwhile, either outcome when another writer overlapped
Written(p, content) ==
    CASE procs[p].w = "unlinked" -> {FileAt(procs[p].pc)}
      [] procs[p].w = "overlapped" -> {content, Unreadable}
      [] OTHER -> {content}

\* line 72: pickle.dump(cache_df, f) and close
DumpCache(p) ==
    /\ procs[p].pc = "g72"
    /\ \E file \in Written(p, CacheOf(df, procs[p].emb)) :
          Put(p, [procs[p] EXCEPT !.pc = "b99", !.w = "clean"],
              file, "none", "clean")

\* lines 99-111
MakeIndex(p) ==
    /\ procs[p].pc = "b99"
    /\ IF Len(procs[p].emb) = 0
       THEN Move(p, [procs[p] EXCEPT !.pc = "failed", !.err = "IndexError"])
       ELSE Move(p, [procs[p] EXCEPT
                        !.pc = "b115",
                        !.index = IndexFlatL2(Len(procs[p].emb[1]),
                                              procs[p].emb),
                        !.ids = RangeIds(df)])

\* lines 116-120: pickle.dump of the index, close, return
DumpIndex(p) ==
    /\ procs[p].pc = "b116"
    /\ \E file \in Written(p, IndexFileOf(procs[p].index, procs[p].ids)) :
          Put(p, Remember([procs[p] EXCEPT !.pc = procs[p].ret,
                                           !.w = "clean"]),
              file, "none", "clean")

\* lines 162-168
Compare(p) ==
    /\ procs[p].pc = "s163"
    /\ Move(p, [procs[p] EXCEPT
                   !.pc = IF model_dim # procs[p].index.d
                          THEN "s170" ELSE "s182"])

\* lines 179-197
RunSearch(p, query, top_k) ==
    /\ procs[p].pc = "s182"
    /\ LET r == SearchRows(procs[p].index, procs[p].ids, df,
                           encode(query, model_dim), top_k)
       IN  Move(p, [procs[p] EXCEPT
                       !.pc = IF r.err = "none" THEN "done" ELSE "failed",
                       !.err = r.err])

\* lines 139-143
ReadCsv(p) ==
    /\ procs[p].pc = "r143"
    /\ Move(p, [procs[p] EXCEPT !.pc = "r147"])

\* lines 149-152
RebuildReturns(p) ==
    /\ procs[p].pc = "r149"
    /\ Move(p, [procs[p] EXCEPT !.pc = "done"])

\* the call is over; the process serves the next one
NextCall(p) ==
    /\ procs[p].pc \in {"done", "failed"}
    /\ Move(p, [procs[p] EXCEPT !.pc = "idle", !.op = "none",
                                !.saw = "none"])

\* the process ends and another starts in its place
Exit(p) ==
    /\ procs[p].pc \in {"done", "failed"}
    /\ Move(p, IdleProc)

\* what both files hold after a build at dimension d
BuiltIndexFile(data, d) ==
    IndexFileOf(IndexFlatL2(d, FreshEmbeddings(data, d)), RangeIds(data))
BuiltCacheFile(data, d) == CacheOf(data, FreshEmbeddings(data, d))

InitConc ==
    /\ df \in {<<r>> : r \in Records}
    /\ model_dim \in Dims
    /\ \/ index_file = Absent /\ cache_file = Absent
       \/ \E d \in Dims : /\ index_file = BuiltIndexFile(df, d)
                          /\ cache_file = BuiltCacheFile(df, d)
    /\ build_memo = {}
    /\ last = Idle
    /\ procs = [p \in Procs |-> IdleProc]

NextConc ==
    \E p \in Procs :
        \/ StartSearch(p)
        \/ StartRebuild(p)
        \/ CallBuild(p)
        \/ TestExists(p)
        \/ Remove(p)
        \/ LoadIndex(p)
        \/ LoadCache(p)
        \/ Embed(p)
        \/ OpenWrite(p)
        \/ DumpCache(p)
        \/ MakeIndex(p)
        \/ DumpIndex(p)
        \/ Compare(p)
        \/ \E top_k \in 1..MaxTopK : RunSearch(p, <<"demand">>, top_k)
        \/ ReadCsv(p)
        \/ RebuildReturns(p)
        \/ NextCall(p)
        \/ Exit(p)

SpecConc == InitConc /\ [][NextConc]_vars

----------------------------------------------------------------------------
(* Properties                                                              *)

Damaged == {"unreadable", "badschema"}

\* C1: after any dataset change, the index that serves a search was built
\* from the embeddings of the current dataset.
C1_DriftRecovered ==
    (last.op = "search" /\ last.err = "none")
        => last.index.xb = FreshEmbeddings(df, last.index.d)

\* C2: generate_embeddings returns the cached vectors if and only if the
\* stored records equal the live ones (count, order and every text).
C2_CacheReusedIffUnchanged ==
    [][(last'.op = "search" /\ last'.generated /\ cache_file.kind = "ok")
          => (last'.reused <=> cache_file.df = df)]_vars

\* C3: a search that meets a dimension mismatch rebuilds the index once
\* from fresh embeddings and succeeds against an index of the query's
\* dimension, both files written again.
C3_MismatchRecovered ==
    (last.op = "search" /\ last.mismatch)
        => /\ last.err = "none"
           /\ last.rebuilt
           /\ last.index = IndexFlatL2(model_dim, FreshEmbeddings(df, model_dim))
           /\ index_file.kind = "ok"
           /\ cache_file.kind = "ok"

\* C4: a search calls build_faiss_index again at most once; when the
\* dimensions still disagree after that call it ends in an error with no
\* rows, and rows only ever come from an index of the query's dimension.
C4_MismatchFatal ==
    last.op = "search"
        => /\ last.calls <= 2
           /\ (last.mismatch /\ last.index.d # model_dim)
                 => (last.err = "AssertionError" /\ last.rows = << >>)
           /\ last.err = "none" => last.index.d = model_dim

C4_Witness ==
    /\ last.op = "search"
    /\ last.mismatch
    /\ last.calls = 2
    /\ last.index.d # model_dim
    /\ last.err = "AssertionError"

\* C5: top_k above the number n > 0 of records returns exactly n rows,
\* each record once, without raising.
C5_KBound ==
    (last.op = "search" /\ Len(df) > 0 /\ last.top_k > Len(df))
        => /\ last.err = "none"
           /\ Len(last.rows) = Len(df)
           /\ \A i, j \in DOMAIN last.rows :
                  last.rows[i] = last.rows[j] => i = j

\* C6: on a dataset of zero records a search returns an empty result
\* without raising.
C6_EmptyDataset ==
    (last.op = "search" /\ Len(df) = 0)
        => (last.err = "none" /\ last.rows = << >>)

\* C7: when force rebuild returns, both artifacts exist and hold the
\* embeddings of the current dataset.
C7_ForceRebuildRegenerates ==
    (last.op = "rebuild" /\ last.err = "none")
        => /\ index_file.kind = "ok"
           /\ cache_file.kind = "ok"
           /\ index_file.index.xb = FreshEmbeddings(df, model_dim)
           /\ cache_file.embedding = FreshEmbeddings(df, model_dim)
           /\ cache_file.df = df

\* C8: a search that finds a damaged artifact rebuilds and returns rows;
\* it does not end in an error.
C8_CorruptionRecovered ==
    (last.op = "search"
     /\ (last.pre_index \in Damaged \/ last.pre_cache \in Damaged))
        => last.err = "none"

\* C9: a search of a non-empty dataset made while the index file, the
\* cache file or both are absent completes on the current embeddings and
\* leaves both artifacts written from the current dataset.
C9_DeletionRecovered ==
    (last.op = "search" /\ Len(df) > 0
     /\ (last.pre_index = "absent" \/ last.pre_cache = "absent"))
        => /\ last.err = "none"
           /\ last.index.xb = FreshEmbeddings(df, last.index.d)
           /\ index_file.kind = "ok"
           /\ cache_file.kind = "ok"
           /\ cache_file.df = df

\* C10: rebuilds exclude one another, so that no os.remove meets a file
\* another process just removed and no file is open for writing in two
\* processes at once.
C10_RebuildsExclusive ==
    /\ \A p \in Procs : procs[p].err # "FileNotFoundError"
    /\ \A p \in Procs : procs[p].w # "overlapped"

\* C11: a search that runs while another process replaces the artifacts
\* never meets a missing or half-written artifact and never ends in the
\* error of a delete that lost a race.
C11_SearchIsolated ==
    \A p \in Procs :
        procs[p].op = "search"
            => /\ procs[p].saw = "none"
               /\ procs[p].err # "FileNotFoundError"

\* a >= b for fractions of positive denominator
FracGeq(a, b) ==
    IF a.den = b.den THEN a.num >= b.num
    ELSE a.num * b.den >= b.num * a.den

\* C12: the rows of a search come nearest first: distances never decrease
\* and similarities never increase down the list, and rows at the same
\* distance come in slot order.
C12_NearestFirst ==
    (last.op = "search" /\ last.err = "none")
        => \A i, j \in DOMAIN last.rows :
              i < j => /\ last.distances[i] <= last.distances[j]
                       /\ FracGeq(last.similarity[i], last.similarity[j])
                       /\ last.distances[i] = last.distances[j]
                             => last.rows[i] <= last.rows[j]

C12_Witness ==
    /\ last.op = "search"
    /\ last.err = "none"
    /\ last.top_k = 3
    /\ last.distances[1] = last.distances[2]
    /\ last.rows[1] < last.rows[2]
    /\ last.distances[2] < last.distances[3]
    /\ ~FracGeq(last.similarity[3], last.similarity[2])

\* C13: a search with top_k = 1 that returns its row scores it exactly 1,
\* whatever the distance of that row to the query.
C13_TopOneScoresOne ==
    (last.op = "search" /\ last.err = "none" /\ last.top_k = 1)
        => /\ Len(last.similarity) = 1
           /\ last.similarity[1].num = last.similarity[1].den

\* a = b for fractions of positive denominator
FracEq(a, b) ==
    IF a.den = b.den THEN a.num = b.num
    ELSE a.num * b.den = b.num * a.den

\* position m holds the largest distance of the rows returned
IsMaxAt(m) ==
    /\ m \in DOMAIN last.distances
    /\ \A i \in DOMAIN last.distances : last.distances[i] <= last.distances[m]

\* C14: every similarity of a search lies in [0,1]; it is
\* 1 - distance / max(distances) over the rows returned when that maximum
\* is positive and 1 when it is 0, also when top_k exceeds the number of
\* records.
C14_SimilarityNormalised ==
    (last.op = "search" /\ last.err = "none")
        => /\ DOMAIN last.similarity = DOMAIN last.distances
           /\ \A j \in DOMAIN last.similarity :
                  /\ last.similarity[j].den > 0
                  /\ 0 <= last.similarity[j].num
                  /\ last.similarity[j].num <= last.similarity[j].den
           /\ \A j, m \in DOMAIN last.similarity :
                  IsMaxAt(m) =>
                     FracEq(last.similarity[j],
                            IF last.distances[m] > 0
                            THEN [num |-> last.distances[m] - last.distances[j],
                                  den |-> last.distances[m]]
                            ELSE [num |-> 1, den |-> 1])

C14_Witness ==
    /\ last.op = "search"
    /\ last.err = "none"
    /\ last.top_k > Len(df)
    /\ 0 < last.similarity[1].num
    /\ last.similarity[1].num < last.similarity[1].den
    /\ last.similarity[last.top_k].num = 0

\* what the caller of a search gets: the rows with their scores, or the
\* exception
Outcome(report) ==
    [err |-> report.err, rows |-> report.rows,
     distances |-> report.distances, similarity |-> report.similarity]

\* C15: on an unchanged dataset and model, a search gives what the search
\* before it gave for the same query and top_k, whether the index was
\* built, memoized or reloaded and whatever was persisted before.
C15_Deterministic ==
    [][(/\ last.op = "search" /\ last'.op = "search"
        /\ last.dataset = "ok" /\ last'.dataset = "ok"
        /\ last'.query = last.query /\ last'.top_k = last.top_k)
          => Outcome(last') = Outcome(last)]_vars

\* C16: in every search, two records of the dataset with the same
\* composed text come back with the same distance and the same
\* similarity, and neither comes after a record that is farther away,
\* whatever was persisted before the search.  (Positions up to the number
\* of records: the neighbours the index found.)
C16_TwinsScoreAlike ==
    (last.op = "search" /\ last.err = "none")
        => \A i, j \in DOMAIN last.rows \cap 1..Len(df) :
              (/\ last.rows[i] # last.rows[j]
               /\ ComposeText(df[last.rows[i] + 1])
                      = ComposeText(df[last.rows[j] + 1]))
                 => /\ last.distances[i] = last.distances[j]
                    /\ FracEq(last.similarity[i], last.similarity[j])
                    /\ \A m \in DOMAIN last.rows :
                          last.distances[m] > last.distances[i] => m > i

\* the exceptions a configuration error surfaces as: the model does not
\* load, the dataset file is missing, the dataset file cannot be read
ConfigErrors == {"OSError", "FileNotFoundError", "ParserError"}

\* C17: a search or rebuild that meets a dataset file that is missing or
\* unreadable, or a model that does not load, stops with that error: it
\* returns no rows, and it does not go on with an empty dataset or with
\* empty vectors (no artifact is written from them).
C17_ConfigErrorFatal ==
    (/\ last.op \in {"search", "rebuild"}
     /\ \/ last.dataset # "ok"
        \/ model_dim = NoModel /\ (last.op = "search" \/ last.ran))
        => /\ last.err \in ConfigErrors
           /\ last.rows = << >>
           /\ cache_file.kind = "ok" => Len(cache_file.df) > 0
           /\ index_file.kind = "ok" => ntotal(index_file.index) > 0

\* C18: when a search answers, the index, the dataset and the persisted
\* embedding cache have the same number of entries and both artifacts
\* exist (so after the first search from no artifacts both are persisted).
C18_CountsAgree ==
    (last.op = "search" /\ last.err = "none")
        => /\ ntotal(last.index) = Len(df)
           /\ index_file.kind = "ok"
           /\ cache_file.kind = "ok"
           /\ Len(index_file.ids) = Len(df)
           /\ Len(cache_file.df) = Len(df)

\* the index file loads and has as many slots as the dataset has records
IndexFileFits == index_file.kind = "ok" /\ Len(index_file.ids) = Len(df)

\* the index a search is about to get is valid: memoized or loadable
\* with the count of the dataset, and of the dimension of the model
ValidIndexFound ==
    IF MemoHit(build_memo, df)
    THEN MemoGet(build_memo, df).index.d = model_dim
    ELSE IndexFileFits /\ index_file.index.d = model_dim

\* C19: a search that finds a valid index changes neither the index in
\* memory and its mapping nor the two persisted files; a search changes
\* them only on the rebuild path.
C19_SearchReadsOnly ==
    [][(last'.op = "search" /\ ValidIndexFound)
          => /\ index_file' = index_file
             /\ cache_file' = cache_file
             /\ build_memo \subseteq build_memo'
             /\ \A e \in build_memo' \ build_memo :
                    /\ e.key = df
                    /\ e.index = index_file.index
                    /\ e.ids = index_file.ids
             /\ last'.index = IF MemoHit(build_memo, df)
                              THEN MemoGet(build_memo, df).index
                              ELSE index_file.index]_vars

C19_Witness ==
    /\ last.op = "search"
    /\ last.err = "none"
    /\ last.ran
    /\ ~last.generated
    /\ ~last.mismatch
    /\ last.pre_index = "ok"
    /\ last.pre_cache = "ok"
    /\ index_file.kind = "ok"
    /\ last.index = index_file.index
    /\ last.index.xb # FreshEmbeddings(df, model_dim)

\* C20: a run of the body of build_faiss_index generates embeddings (and
\* so consults the embedding cache) exactly when the index file is
\* absent, does not load or has another slot count; otherwise it returns
\* the index and mapping of the file and leaves the cache as it is, absent
\* included.
C20_IndexHitSkipsCache ==
    [][(last'.op = "search" /\ last'.ran)
          => /\ IndexFileFits <=> ~last'.generated
             /\ IndexFileFits
                   => /\ last'.index = index_file.index
                      /\ ~last'.mismatch
                            => /\ cache_file' = cache_file
                               /\ index_file' = index_file]_vars

C20_Witness ==
    /\ last.op = "search"
    /\ last.err = "none"
    /\ last.ran
    /\ ~last.generated
    /\ last.pre_index = "ok"
    /\ last.pre_cache = "absent"
    /\ cache_file = Absent

C22_RebuildDeletesFirst ==
    (last.op = "rebuild" /\ last.dataset # "ok")
        => /\ last.err \in {"FileNotFoundError", "ParserError"}
           /\ index_file = Absent
           /\ cache_file = Absent
           /\ ~last.ran
           /\ last.builds = 0

C22_Witness ==
    /\ last.op = "rebuild"
    /\ last.dataset = "missing"
    /\ last.err = "FileNotFoundError"
    /\ last.pre_index = "ok"
    /\ last.pre_cache = "ok"
    /\ index_file = Absent
    /\ cache_file = Absent

\* C23: a failed write of the embedding cache or of the index file is
\* swallowed: the call still returns the index built in memory over every
\* record and the search returns rows; the file whose write failed is then
\* absent or as it was before the call, and the index is constructed once
\* (the write is not tried again).  Steps that end a search are the ones
\* that set the report and keep or fill the memo.
C23_WriteFailureSwallowed ==
    [][(last'.op = "search" /\ (build_memo' # {} \/ build_memo = {}))
        => /\ (last'.generated /\ ~last'.reused /\ last'.writes[1] # "ok")
                => /\ last'.err = "none"
                   /\ last'.rows # << >>
                   /\ ntotal(last'.index) = Len(df)
                   /\ cache_file' \in {Absent, cache_file}
           /\ (last'.builds >= 1 /\ last'.writes[2] # "ok")
                => /\ last'.err = "none"
                   /\ last'.rows # << >>
                   /\ ntotal(last'.index) = Len(df)
                   /\ index_file' \in {Absent, index_file}
                   /\ last'.builds = 1]_vars

\* the row positions line 185 makes of the labels found in the index of
\* the build b are positions of the dataset
PositionsInRange(b, found, data) ==
    (b.err = "none" /\ found.err = "none")
        => \A j \in DOMAIN found.indices :
              /\ PyInRange(b.ids, found.indices[j])
              /\ PyItem(b.ids, found.indices[j]) \in 0..(Len(data) - 1)

SearchInRange(b, data, x, top_k) ==
    PositionsInRange(b, IndexSearch(b.index, x, top_k), data)

\* C24: every mapping build_faiss_index made (memoized or persisted) is
\* 0..n-1 over as many slots as the index holds, a build for the current
\* dataset answers with 0..n-1 over its rows, and every position a search
\* hands to the record store, the padding label -1 included, is a row
\* position of the dataset.
C24_IdentityMapping ==
    /\ \A e \in build_memo :
          /\ e.ids = [i \in 1..Len(e.key) |-> i - 1]
          /\ ntotal(e.index) = Len(e.key)
    /\ index_file.kind = "ok"
          => /\ index_file.ids = [i \in 1..ntotal(index_file.index) |-> i - 1]
             /\ ntotal(index_file.index) >= 1
    /\ \A query \in Queries, top_k \in 1..MaxTopK :
          SearchInRange(build_faiss_index(build_memo, index_file, cache_file,
                                          df, model_dim),
                        df, encode(query, model_dim), top_k)
    /\ (last.op = "search" /\ last.err = "none")
          => \A j \in DOMAIN last.rows : last.rows[j] \in 0..(ntotal(last.index) - 1)

\* a search asked for more rows than the dataset has: the padding is
\* answered with the last row
C24_Witness ==
    /\ last.op = "search"
    /\ last.err = "none"
    /\ Len(df) >= 1
    /\ last.top_k > ntotal(last.index)
    /\ last.distances[last.top_k] = FLT_MAX
    /\ last.rows[last.top_k] = ntotal(last.index) - 1
    /\ MemoHit(build_memo, df)
    /\ MemoGet(build_memo, df).ids = RangeIds(df)

====
